---- MODULE Spec2Model ----
(***************************************************************************)
(* Meter Reading Ledger of the power consumption management system:        *)
(* ingestion (APIs.py record_meter_reading), the ingestion gate            *)
(* (app.py shutdown / resume), archival (APIs.py archive_readings,         *)
(* daily.py DailyMaintenance) and recovery (restore.py DataRestorer,       *)
(* app.py restore_data).                                                   *)
(*                                                                         *)
(* Conventions.                                                            *)
(*  - A datetime is a record of its seven fields.                          *)
(*  - A reading is an integer number of units of 0.005 kWh, so that the    *)
(*    replay tolerance 0.01 of restore.py is the integer 2.                *)
(*  - A Python dict is a sequence of [key, value] entries in insertion     *)
(*    order with unique keys.                                              *)
(*  - A text rendering of a datetime is a record of the printed fields;    *)
(*    frac = NoFrac when no fractional part is printed.                    *)
(***************************************************************************)
EXTENDS Integers, Sequences, FiniteSets, TLC

(***************************************************************************)
(* Bounds of the model                                                     *)
(***************************************************************************)
\* at most this many lines written to today's log file by ingestion requests
MaxLog == 4
\* at most this many replayable entries written to today's log file
MaxEntries == 3

(***************************************************************************)
(* datetime                                                                *)
(***************************************************************************)
Stamp(y, mo, d, h, mi, s, us) ==
    [year |-> y, month |-> mo, day |-> d, hour |-> h, minute |-> mi,
     second |-> s, microsecond |-> us]

MkDate(y, mo, d) == [year |-> y, month |-> mo, day |-> d]

\* datetime.date()
DateOf(t) == MkDate(t.year, t.month, t.day)

\* datetime.combine(date, datetime.min.time())
Midnight(d) == Stamp(d.year, d.month, d.day, 0, 0, 0, 0)

\* comparison of two datetimes (field by field, most significant first)
TsLess(a, b) ==
    \/ a.year < b.year
    \/ a.year = b.year /\ a.month < b.month
    \/ a.year = b.year /\ a.month = b.month /\ a.day < b.day
    \/ a.year = b.year /\ a.month = b.month /\ a.day = b.day /\ a.hour < b.hour
    \/ a.year = b.year /\ a.month = b.month /\ a.day = b.day /\ a.hour = b.hour
         /\ a.minute < b.minute
    \/ a.year = b.year /\ a.month = b.month /\ a.day = b.day /\ a.hour = b.hour
         /\ a.minute = b.minute /\ a.second < b.second
    \/ a.year = b.year /\ a.month = b.month /\ a.day = b.day /\ a.hour = b.hour
         /\ a.minute = b.minute /\ a.second = b.second
         /\ a.microsecond < b.microsecond

TsLeq(a, b) == a = b \/ TsLess(a, b)

IsLeap(y) == (y % 4 = 0 /\ y % 100 # 0) \/ y % 400 = 0

DaysInMonth(y, mo) ==
    IF mo = 2 THEN (IF IsLeap(y) THEN 29 ELSE 28)
    ELSE IF mo \in {4, 6, 9, 11} THEN 30 ELSE 31

\* date - timedelta(days=1)
PrevDate(d) ==
    IF d.day > 1 THEN MkDate(d.year, d.month, d.day - 1)
    ELSE IF d.month > 1
         THEN MkDate(d.year, d.month - 1, DaysInMonth(d.year, d.month - 1))
         ELSE MkDate(d.year - 1, 12, 31)

\* date + timedelta(days=1)
NextDate(d) ==
    IF d.day < DaysInMonth(d.year, d.month) THEN MkDate(d.year, d.month, d.day + 1)
    ELSE IF d.month < 12 THEN MkDate(d.year, d.month + 1, 1)
         ELSE MkDate(d.year + 1, 1, 1)

\* datetime - timedelta(days=1): the same time of day on the previous date
MinusOneDay(t) ==
    LET p == PrevDate(DateOf(t))
    IN  Stamp(p.year, p.month, p.day, t.hour, t.minute, t.second, t.microsecond)

\* the instant at which the service of the ledger specifications runs
WallClock == Stamp(2025, 3, 15, 10, 40, 0, 0)

(***************************************************************************)
(* Text renderings of a datetime                                           *)
(***************************************************************************)
\* no fractional part printed
NoFrac == <<>>

\* str(datetime), as an f-string prints it: "YYYY-MM-DD HH:MM:SS[.ffffff]"
StrOfDatetime(t) ==
    [year |-> t.year, month |-> t.month, day |-> t.day, hour |-> t.hour,
     minute |-> t.minute, second |-> t.second,
     frac |-> IF t.microsecond = 0 THEN NoFrac ELSE <<t.microsecond>>]

\* datetime.strftime('%Y-%m-%dT%H:%M:%S'): the microseconds are not printed
StrfSeconds(t) ==
    [year |-> t.year, month |-> t.month, day |-> t.day, hour |-> t.hour,
     minute |-> t.minute, second |-> t.second, frac |-> NoFrac]

\* datetime.isoformat(): the microseconds are printed when they are not zero
IsoFormat(t) == StrOfDatetime(t)

\* datetime.fromisoformat(text)
FromIsoFormat(x) ==
    Stamp(x.year, x.month, x.day, x.hour, x.minute, x.second,
          IF x.frac = NoFrac THEN 0 ELSE x.frac[1])

NoText ==
    [year |-> 0, month |-> 0, day |-> 0, hour |-> 0, minute |-> 0, second |-> 0,
     frac |-> NoFrac]

NoStamp == Stamp(0, 0, 0, 0, 0, 0, 0)

(***************************************************************************)
(* Python dict: a sequence of [key, value] entries, keys unique            *)
(***************************************************************************)
Range(s) == {s[i] : i \in 1..Len(s)}

DictKeys(d) == {d[i].key : i \in 1..Len(d)}

DictHas(d, k) == k \in DictKeys(d)

\* d[k], for k in d
DictGet(d, k) == d[CHOOSE i \in 1..Len(d) : d[i].key = k].value

\* d[k] = v: an existing key keeps its place, a new key goes last
DictSet_Append(d, k, v) == Append(d, [key |-> k, value |-> v])

DictSet(d, k, v) ==
    IF DictHas(d, k)
    THEN [i \in 1..Len(d) |-> IF d[i].key = k THEN [key |-> k, value |-> v] ELSE d[i]]
    ELSE Append(d, [key |-> k, value |-> v])

\* the entries of d whose key is not in ks (del d[k] for every k in ks)
DictDelAll(d, ks) == SelectSeq(d, LAMBDA e : e.key \notin ks)

RECURSIVE DictUpdate(_, _)
\* d.update(e): the entries of e are set one by one, in e's order
DictUpdate(d, e) ==
    IF e = <<>> THEN d
    ELSE DictUpdate(DictSet(d, Head(e).key, Head(e).value), Tail(e))

(***************************************************************************)
(* Inputs of the requests                                                  *)
(***************************************************************************)
MeterIds == {"M1", "M2"}

\* last month, yesterday and today; one timestamp each off the half hour, off
\* the full second and off the full microsecond
T_LastMonth == Stamp(2025, 2, 20, 0, 0, 0, 0)
T_Yesterday == Stamp(2025, 3, 14, 0, 30, 0, 0)
T_Today0    == Stamp(2025, 3, 15, 0, 0, 0, 0)
T_Today30   == Stamp(2025, 3, 15, 0, 30, 0, 0)
T_Quarter   == Stamp(2025, 3, 15, 0, 15, 0, 0)
T_Second    == Stamp(2025, 3, 15, 0, 30, 1, 0)
T_Micro     == Stamp(2025, 3, 15, 1, 0, 0, 500)

Timestamps ==
    {T_LastMonth, T_Yesterday, T_Today0, T_Today30, T_Quarter, T_Second, T_Micro}

\* the timestamps of the requests when archival and recovery run as well
LedgerTimestamps == {T_LastMonth, T_Yesterday, T_Today0}

\* today at 10:00 and at 10:30, the half hour WallClock is adjusted to
T_Hour     == Stamp(2025, 3, 15, 10, 0, 0, 0)
T_HalfHour == Stamp(2025, 3, 15, 10, 30, 0, 0)

\* half past midnight of 2025-03-14 and an instant 500 microseconds after it
T_YesterdayMicro == Stamp(2025, 3, 14, 0, 30, 0, 500)

\* the timestamps of the requests when an archive run is read back
ArchiveTimestamps == {T_Yesterday, T_YesterdayMicro}

\* one o'clock of 2025-03-14: a second instant of yesterday
T_YesterdayHour == Stamp(2025, 3, 14, 1, 0, 0, 0)

\* the timestamps of the requests and entries when recovery reads partitions
RecoverTimestamps == {T_Yesterday, T_Today0}

\* the timestamps of the requests when consumption is queried
QueryTimestamps == {T_Today0, T_Hour, T_HalfHour}

\* the last half hour of 2024
T_LastYear == Stamp(2024, 12, 31, 23, 30, 0, 0)

\* midnight of the first day of February 2025
T_FirstFeb == Stamp(2025, 2, 1, 0, 0, 0, 0)

\* the timestamps of the requests when the wall clock varies
ClockTimestamps == {T_FirstFeb, T_LastYear}

\* the instants the wall clock can show: minute 40, 30, 0 and 15 of a
\* Saturday, the first minutes and the last microsecond of a January, a
\* Monday of a leap year and the first instant of a month
Clocks ==
    {WallClock,
     Stamp(2025, 3, 15, 10, 30, 45, 250),
     Stamp(2025, 3, 15, 10, 0, 20, 0),
     Stamp(2025, 3, 15, 10, 15, 0, 0),
     Stamp(2025, 1, 1, 0, 10, 0, 0),
     Stamp(2025, 1, 31, 23, 59, 59, 999999),
     Stamp(2024, 3, 4, 12, 30, 0, 0),
     Stamp(2025, 3, 1, 0, 0, 0, 0),
     Stamp(2025, 2, 1, 8, 0, 0, 0),
     Stamp(2025, 2, 2, 8, 0, 0, 0)}

\* 1.00 kWh and 1.02 kWh
Readings == {200, 204}

(***************************************************************************)
(* State                                                                   *)
(***************************************************************************)
VARIABLES
    accounts,            \* ems.accounts: the registered meter ids, in order
    meter_readings,      \* accounts[m].meter_readings, for every registered m
    is_receiving_data,   \* ems.is_receiving_data
    system_state,        \* app.py SystemState
    archive_dir_exists,  \* whether the directory ./Archive exists
    files,               \* the files ./Archive/<period>_<key>.csv: name -> rows
    log,                 \* logs/<today>.log: its lines about meter readings
    meter_files,         \* the files ./Archive/YYYY/MM/<meter>.csv: name -> rows
    clock,               \* the instant the wall clock shows
    last                 \* the last request and what it returned

vars ==
    <<accounts, meter_readings, is_receiving_data, system_state,
      archive_dir_exists, files, log, meter_files, clock, last>>

\* datetime.now(): a behaviour runs within one instant
Now == clock

\* op: the request; meter, ts, reading, period, clear_memory, fault: its
\* arguments; result: what it returned; rows: the readings an archive run
\* selected; out: the data a recovery run returned; total: its reading count
\* start_time, end_time: the range of a consumption query; value: the
\* consumption it returned, <<>> when it returned none; start_reading,
\* end_reading: the readings its result carries, <<>> when it carries none;
\* key: the month of the archive file a last_month query read; again: whether
\* an archive run directly follows a successful run for the same period;
\* answers: what every consumption query answered before a gate request.
\* For a recovery run, fault is "read" when reading one daily file raised, key
\* the date of that file, read the number of its rows read before, and again
\* tells whether the run directly follows a run with the same fault
NoRequest ==
    [op |-> "none", meter |-> "", ts |-> NoStamp, reading |-> 0,
     period |-> "", clear_memory |-> FALSE, fault |-> "", again |-> FALSE,
     result |-> "", rows |-> <<>>, out |-> <<>>, total |-> 0,
     start_time |-> NoStamp, end_time |-> NoStamp, value |-> <<>>,
     start_reading |-> <<>>, end_reading |-> <<>>,
     key |-> MkDate(0, 0, 0), answers |-> <<>>, read |-> 0]

Init ==
    /\ accounts = <<"M1">>
    /\ meter_readings = [m \in {"M1"} |-> <<>>]
    /\ is_receiving_data = TRUE
    /\ system_state = [is_maintenance_mode |-> FALSE, is_receiving_data |-> TRUE]
    /\ archive_dir_exists = FALSE
    /\ files = <<>>
    /\ log = <<>>
    /\ meter_files = <<>>
    /\ clock = WallClock
    /\ last = NoRequest

(***************************************************************************)
(* The log lines of the ingestion path                                     *)
(***************************************************************************)
\* damage tells what became of the line in the file: "none" for a whole line,
\* "cut" for a line that ends before the first digit of its reading,
\* "partial" for a line that ends inside the digits of its reading (reading is
\* then the value of the digits left), "undecodable" for bytes that are not
\* UTF-8
LogLine(lvl, tmpl, m, t, r) ==
    [level |-> lvl, template |-> tmpl, meter_id |-> m, timestamp |-> t,
     reading |-> r, damage |-> "none"]

\* APIs.py:187
RecordingLine(m, t, r) ==
    LogLine("INFO", "Recording meter reading: meter_id=, timestamp=, reading=",
            m, StrOfDatetime(t), r)

\* APIs.py:191-192
ShutdownLine ==
    LogLine("ERROR", "System is currently shutdown and not accepting new readings",
            "", NoText, 0)

\* APIs.py:197-198
NotFoundLine(m) ==
    LogLine("ERROR", "Meter ID not found. Unable to record reading.", m, NoText, 0)

\* APIs.py:203-204
InvalidTimestampLine(t) ==
    LogLine("ERROR", "Invalid timestamp format for meter reading: ",
            "", StrOfDatetime(t), 0)

\* APIs.py:210
RecordedLine(m) ==
    LogLine("INFO", "Meter reading successfully recorded for meter ID: ",
            m, NoText, 0)

(***************************************************************************)
(* Ingestion: ElectricityManagementSystem.record_meter_reading             *)
(***************************************************************************)
TimestampAligned_NoSecond(t) == t.minute = 0 \/ t.minute = 30

\* APIs.py:202
TimestampAligned(t) == (t.minute = 0 \/ t.minute = 30) /\ t.second = 0

IngestOutcome_DeviceFirst(m, t) ==
    IF m \notin Range(accounts) THEN "UnknownDevice"
    ELSE IF ~is_receiving_data THEN "IngestionSuspended"
    ELSE IF ~TimestampAligned(t) THEN "InvalidTimestamp"
    ELSE "Recorded"

IngestOutcome_NoGate(m, t) ==
    IF m \notin Range(accounts) THEN "UnknownDevice"
    ELSE IF ~TimestampAligned(t) THEN "InvalidTimestamp"
    ELSE "Recorded"

\* the checks of APIs.py:189-205, in the order of the code
IngestOutcome(m, t) ==
    IF ~is_receiving_data THEN "IngestionSuspended"
    ELSE IF m \notin Range(accounts) THEN "UnknownDevice"
    ELSE IF ~TimestampAligned(t) THEN "InvalidTimestamp"
    ELSE "Recorded"

\* the line logged after the checks
OutcomeLine(outcome, m, t) ==
    IF outcome = "IngestionSuspended" THEN ShutdownLine
    ELSE IF outcome = "UnknownDevice" THEN NotFoundLine(m)
    ELSE IF outcome = "InvalidTimestamp" THEN InvalidTimestampLine(t)
    ELSE RecordedLine(m)

record_meter_reading(m, t, r) ==
    LET outcome == IngestOutcome(m, t)
    IN  /\ Len(log) + 2 <= MaxLog
        /\ log' = log \o <<RecordingLine(m, t, r), OutcomeLine(outcome, m, t)>>
        /\ meter_readings' =
              IF outcome = "Recorded"
              THEN [meter_readings EXCEPT ![m] = DictSet(@, t, r)]
              ELSE meter_readings
        /\ last' = [NoRequest EXCEPT !.op = "ingest", !.meter = m, !.ts = t,
                                     !.reading = r, !.result = outcome]
        /\ UNCHANGED <<accounts, is_receiving_data, system_state,
                       archive_dir_exists, files, meter_files, clock>>

\* a request for a meter of M with its timestamp drawn from T
ReceiveMeterReadingOf(M, T) ==
    \E m \in M, t \in T, r \in Readings :
        record_meter_reading(m, t, r)

\* a request with its timestamp drawn from T
ReceiveMeterReading(T) == ReceiveMeterReadingOf(MeterIds, T)

(***************************************************************************)
(* Registration: ElectricityManagementSystem.register_account              *)
(***************************************************************************)
register_account(m) ==
    /\ IF m \in Range(accounts)
       THEN /\ UNCHANGED <<accounts, meter_readings>>
            /\ last' = [NoRequest EXCEPT !.op = "register", !.meter = m,
                                         !.result = "AlreadyExists"]
       ELSE /\ accounts' = Append(accounts, m)
            /\ meter_readings' = [x \in DOMAIN meter_readings \cup {m} |->
                                    IF x = m THEN <<>> ELSE meter_readings[x]]
            /\ last' = [NoRequest EXCEPT !.op = "register", !.meter = m,
                                         !.result = "Registered"]
    /\ UNCHANGED <<is_receiving_data, system_state, archive_dir_exists, files,
                   log, meter_files, clock>>

\* app.py:103-128: the endpoint refuses while maintenance runs
RegisterAccount ==
    \E m \in MeterIds :
        IF system_state.is_maintenance_mode
        THEN /\ last' = [NoRequest EXCEPT !.op = "register", !.meter = m,
                                          !.result = "MaintenanceMode"]
             /\ UNCHANGED <<accounts, meter_readings, is_receiving_data,
                            system_state, archive_dir_exists, files, log,
                            meter_files, clock>>
        ELSE register_account(m)

(***************************************************************************)
(* Files: a directory is a function from the names of its files to rows    *)
(***************************************************************************)
WriteFile_Append(dir, n, rows) ==
    [x \in DOMAIN dir \cup {n} |->
        IF x = n THEN (IF n \in DOMAIN dir THEN dir[n] \o rows ELSE rows)
        ELSE dir[x]]

\* the directory with file n (re)written to hold rows
WriteFile(dir, n, rows) ==
    [x \in DOMAIN dir \cup {n} |-> IF x = n THEN rows ELSE dir[x]]

RECURSIVE SortTs(_)
\* sorted(keys): the datetimes of S in ascending order
SortTs(S) ==
    IF S = {} THEN <<>>
    ELSE LET least == CHOOSE t \in S : \A u \in S : TsLeq(t, u)
         IN  <<least>> \o SortTs(S \ {least})

(***************************************************************************)
(* Archival: ElectricityManagementSystem.archive_readings                  *)
(***************************************************************************)
\* APIs.py:385  now.replace(day=1, hour=0, minute=0, second=0, microsecond=0)
FirstDayThisMonth == Stamp(Now.year, Now.month, 1, 0, 0, 0, 0)

LastMonth_FromNow == MinusOneDay(Now)

\* APIs.py:386  first_day_this_month - timedelta(days=1)
LastMonth == MinusOneDay(FirstDayThisMonth)

\* APIs.py:389
MonthStart == Stamp(LastMonth.year, LastMonth.month, 1, 0, 0, 0, 0)

\* APIs.py:393  (now - timedelta(days=1)).date()
Yesterday == DateOf(MinusOneDay(Now))

\* APIs.py:396-397
DayStart == Midnight(Yesterday)

DayEnd == Midnight(NextDate(Yesterday))

\* APIs.py:387, 394, 399: f"{period}_{archive_key}.csv"; a month key has day 0
ArchiveFileName(period) ==
    IF period = "monthly"
    THEN [period |-> period, key |-> MkDate(LastMonth.year, LastMonth.month, 0)]
    ELSE [period |-> period, key |-> Yesterday]

\* a window that takes in the instant at which it ends
InArchivePeriod_ClosedEnd(period, t) ==
    IF period = "monthly"
    THEN TsLeq(MonthStart, t) /\ TsLeq(t, FirstDayThisMonth)
    ELSE TsLeq(DayStart, t) /\ TsLeq(t, DayEnd)

\* APIs.py:402-407: the timestamps a run selects
InArchivePeriod(period, t) ==
    IF period = "monthly"
    THEN TsLeq(MonthStart, t) /\ TsLess(t, FirstDayThisMonth)
    ELSE TsLeq(DayStart, t) /\ TsLess(t, DayEnd)

\* a selection that takes every reading of the account
PeriodReadings_All(period, m) == meter_readings[m]

\* APIs.py:403-407
PeriodReadings(period, m) ==
    SelectSeq(meter_readings[m], LAMBDA e : InArchivePeriod(period, e.key))

\* APIs.py:410-415: one record per selected reading
ReadingRecords(m, d) ==
    [i \in 1..Len(d) |-> [meter_id |-> m, timestamp |-> d[i].key, reading |-> d[i].value]]

RECURSIVE AllReadings(_, _)
\* APIs.py:380-415: all_readings, account by account in the order of accounts
AllReadings(period, ms) ==
    IF ms = <<>> THEN <<>>
    ELSE ReadingRecords(Head(ms), PeriodReadings(period, Head(ms)))
           \o AllReadings(period, Tail(ms))

\* APIs.py:423-426: the rows of the data frame as to_csv writes them
CsvRows(recs) ==
    [i \in 1..Len(recs) |->
        [meter_id |-> recs[i].meter_id,
         timestamp |-> StrfSeconds(recs[i].timestamp),
         reading |-> recs[i].reading]]

\* an eviction that empties the ledger entry of every account
ClearedReadings_All(period) ==
    [m \in DOMAIN meter_readings |-> <<>>]

\* APIs.py:417-420 after a run over every account
ClearedReadings(period) ==
    [m \in DOMAIN meter_readings |->
        SelectSeq(meter_readings[m], LAMBDA e : ~InArchivePeriod(period, e.key))]

\* fault: "makedirs" (os.makedirs raises), "to_csv" (the write raises) or "none"
archive_readings(period, clear_memory, fault) ==
    LET all_readings == AllReadings(period, accounts)
        failed == fault = "makedirs" \/ (fault = "to_csv" /\ all_readings # <<>>)
    IN  /\ archive_dir_exists' = (archive_dir_exists \/ fault # "makedirs")
        /\ meter_readings' =
              IF fault # "makedirs" /\ clear_memory
              THEN ClearedReadings(period) ELSE meter_readings
        /\ files' =
              IF ~failed /\ all_readings # <<>>
              THEN WriteFile(files, ArchiveFileName(period), CsvRows(all_readings))
              ELSE files
        /\ last' = [NoRequest EXCEPT
                      !.op = "archive", !.period = period,
                      !.clear_memory = clear_memory, !.fault = fault,
                      !.again = ( /\ last.op = "archive" /\ last.period = period
                                  /\ last.result = "True" ),
                      !.result = IF failed THEN "False" ELSE "True",
                      !.rows = IF fault = "makedirs" THEN <<>> ELSE all_readings]
        /\ UNCHANGED <<accounts, is_receiving_data, system_state, log, meter_files,
                       clock>>

ArchiveReadings ==
    \E period \in {"daily", "monthly"}, clear_memory \in BOOLEAN,
       fault \in {"none", "makedirs", "to_csv"} :
        archive_readings(period, clear_memory, fault)


(***************************************************************************)
(* Daily maintenance: daily.py DailyMaintenance                            *)
(***************************************************************************)
\* daily.py:40-54  _get_yesterday_readings
YesterdayReadings(d) ==
    SelectSeq(d, LAMBDA e : TsLeq(DayStart, e.key) /\ TsLess(e.key, DayEnd))

\* daily.py:79-87: the file of a meter, named after the first timestamp's month
MeterFileName(m, readings) ==
    LET first_ts == SortTs(DictKeys(readings))[1]
    IN  [year |-> first_ts.year, month |-> first_ts.month, meter_id |-> m]

\* daily.py:90-97: the rows of a file read back into a dict
ExistingReadings(rows) ==
    LET keys == {FromIsoFormat(rows[i].timestamp) : i \in 1..Len(rows)}
        lastRow(k) == CHOOSE i \in 1..Len(rows) :
                         /\ FromIsoFormat(rows[i].timestamp) = k
                         /\ \A j \in 1..Len(rows) :
                               FromIsoFormat(rows[j].timestamp) = k => j <= i
        firstRow(k) == CHOOSE i \in 1..Len(rows) :
                         /\ FromIsoFormat(rows[i].timestamp) = k
                         /\ \A j \in 1..Len(rows) :
                               FromIsoFormat(rows[j].timestamp) = k => i <= j
        firsts == {firstRow(k) : k \in keys}
        order == SelectSeq([i \in 1..Len(rows) |-> i], LAMBDA i : i \in firsts)
    IN  [n \in 1..Len(order) |->
            [key |-> FromIsoFormat(rows[order[n]].timestamp),
             value |-> rows[lastRow(FromIsoFormat(rows[order[n]].timestamp))].reading]]

\* daily.py:99-110: {**existing_readings, **readings}, written sorted by timestamp
MergedRows(existing, readings) ==
    LET all_readings == DictUpdate(existing, readings)
        sorted == SortTs(DictKeys(all_readings))
    IN  [i \in 1..Len(sorted) |->
            [timestamp |-> IsoFormat(sorted[i]),
             reading |-> DictGet(all_readings, sorted[i])]]

\* daily.py:67-110  _save_readings_to_csv: the directory after the write
SaveReadingsToCsv(dir, m, readings) ==
    LET n == MeterFileName(m, readings)
        existing == IF n \in DOMAIN dir THEN ExistingReadings(dir[n]) ELSE <<>>
    IN  WriteFile(dir, n, MergedRows(existing, readings))

RECURSIVE Maintain(_, _, _, _)
\* daily.py:122-137: the loop over the accounts from ms on; the write for
\* meter `fault` raises, which ends the loop.  The result is the state the
\* loop leaves: [readings, dir, ok]
Maintain(ms, readings, dir, fault) ==
    IF ms = <<>> THEN [readings |-> readings, dir |-> dir, ok |-> TRUE]
    ELSE LET m == Head(ms)
             yesterday_readings == YesterdayReadings(readings[m])
         IN  IF yesterday_readings = <<>>
             THEN Maintain(Tail(ms), readings, dir, fault)
             ELSE IF m = fault
             THEN [readings |-> readings, dir |-> dir, ok |-> FALSE]
             ELSE Maintain(Tail(ms),
                           [readings EXCEPT ![m] =
                               DictDelAll(@, DictKeys(yesterday_readings))],
                           SaveReadingsToCsv(dir, m, yesterday_readings),
                           fault)

perform_maintenance(fault) ==
    LET done == Maintain(accounts, meter_readings, meter_files, fault)
    IN  /\ meter_readings' = done.readings
        /\ meter_files' = done.dir
        /\ archive_dir_exists' = (archive_dir_exists \/ done.dir # meter_files)
        /\ last' = [NoRequest EXCEPT
                      !.op = "maintenance", !.period = "daily",
                      !.clear_memory = TRUE, !.fault = fault,
                      !.again = (last.op = "maintenance" /\ last.result = "True"),
                      !.result = IF done.ok THEN "True" ELSE "False",
                      !.rows = AllReadings("daily", accounts)]
        /\ UNCHANGED <<accounts, is_receiving_data, system_state, files, log, clock>>

PerformMaintenance == \E fault \in MeterIds \cup {"none"} : perform_maintenance(fault)


(***************************************************************************)
(* Recovery: restore.py DataRestorer                                       *)
(***************************************************************************)
\* restore.py:115  the difference up to which two readings agree (0.01 kWh)
Tolerance == 2

Abs(x) == IF x < 0 THEN 0 - x ELSE x

\* the text the replayed entries carry (restore.py:72, and :142)
RecordedSuccessfully == "Meter reading recorded successfully: , , "

\* restore.py:57-91  _parse_log_line: <<>> is None, else <<the reading>>.
\* The pattern asks for the level INFO, the text above, a timestamp printed
\* without a fractional part and at least one character of a reading; it is
\* searched for and not anchored at the end of the line.  Minute and second
\* are checked afterwards
parse_log_line(line) ==
    IF /\ line.level = "INFO"
       /\ line.template = RecordedSuccessfully
       /\ line.timestamp.frac = NoFrac
       /\ line.damage # "cut"
    THEN LET reading_timestamp == FromIsoFormat(line.timestamp)
         IN  IF reading_timestamp.minute \notin {0, 30} \/ reading_timestamp.second # 0
             THEN <<>>
             ELSE <<[meter_id |-> line.meter_id, timestamp |-> reading_timestamp,
                     reading |-> line.reading]>>
    ELSE <<>>

\* readings[meter_id][timestamp] = reading, on a dict of dicts
SetReading(readings, m, t, r) ==
    DictSet(readings, m, DictSet(IF DictHas(readings, m) THEN DictGet(readings, m)
                                 ELSE <<>>, t, r))

\* restore.py:113-117: the reading exists with a value further than the
\* tolerance from r, which is logged as a conflict
ConflictingReading(m, t, r, readings) ==
    /\ DictHas(readings, m) /\ DictHas(DictGet(readings, m), t)
    /\ Abs(DictGet(DictGet(readings, m), t) - r) > Tolerance

\* a check that lets a conflicting reading replace the existing one
validate_reading_Overwrite(m, t, r, readings) ==
    IF t.minute \notin {0, 30} \/ t.second # 0 THEN FALSE
    ELSE IF DictHas(readings, m) /\ DictHas(DictGet(readings, m), t)
         THEN ConflictingReading(m, t, r, readings)
         ELSE TRUE

\* restore.py:93-123  _validate_reading: an existing reading is never
\* replaced, whether it conflicts (:117) or is a duplicate (:118)
validate_reading(m, t, r, readings) ==
    IF t.minute \notin {0, 30} \/ t.second # 0 THEN FALSE
    ELSE IF DictHas(readings, m) /\ DictHas(DictGet(readings, m), t)
         THEN (IF ConflictingReading(m, t, r, readings) THEN FALSE ELSE FALSE)
         ELSE TRUE

\* restore.py:142-148: one line of the log
ReadLine(line, readings) ==
    LET result == IF line.template = RecordedSuccessfully
                  THEN parse_log_line(line) ELSE <<>>
    IN  IF result # <<>>
        THEN SetReading(readings, result[1].meter_id, result[1].timestamp,
                        result[1].reading)
        ELSE readings

RECURSIVE ReadLines(_, _)
\* restore.py:141-149: the loop over the lines of the log
ReadLines(lines, readings) ==
    IF lines = <<>> THEN readings
    ELSE ReadLines(Tail(lines), ReadLine(Head(lines), readings))

\* restore.py:125-155  _get_today_readings_from_logs (loggers.py creates the
\* file).  The file is opened with encoding='utf-8' (:140): bytes that cannot
\* be decoded make the iteration raise, and the handler returns {} (:150-152)
get_today_readings_from_logs ==
    IF \E i \in 1..Len(log) : log[i].damage = "undecodable" THEN <<>>
    ELSE ReadLines(log, <<>>)

\* restore.py:30-55  _get_daily_files_for_current_month, for an existing
\* directory: the daily files of this month, sorted by name
get_daily_files_for_current_month ==
    LET daily == {n \in DOMAIN files :
                     /\ n.period = "daily"
                     /\ n.key.year = Now.year /\ n.key.month = Now.month}
        sorted == SortTs({Midnight(n.key) : n \in daily})
    IN  [i \in 1..Len(sorted) |-> [period |-> "daily", key |-> DateOf(sorted[i])]]

RECURSIVE ReadCsv(_, _)
\* restore.py:174-183: the rows of one daily file
ReadCsv(rows, restored_data) ==
    IF rows = <<>> THEN restored_data
    ELSE LET meter_id == Head(rows).meter_id
             timestamp == FromIsoFormat(Head(rows).timestamp)
             reading == Head(rows).reading
         IN  ReadCsv(Tail(rows),
                     IF validate_reading(meter_id, timestamp, reading, restored_data)
                     THEN SetReading(restored_data, meter_id, timestamp, reading)
                     ELSE restored_data)

\* the name that stands for no file
NoFile == [period |-> "", key |-> MkDate(0, 0, 0)]

\* a handler that drops what was restored so far when a file cannot be read
ReadFile_Reset(name, restored_data, bad, k) ==
    IF name = bad THEN <<>> ELSE ReadCsv(files[name], restored_data)

\* restore.py:171-186: the try block for one file.  Reading file `bad` raises
\* after k of its rows (k = 0: open raises); the handler logs the error and
\* the loop goes on, with what the rows before have put into restored_data
ReadFile(name, restored_data, bad, k) ==
    IF name = bad THEN ReadCsv(SubSeq(files[name], 1, k), restored_data)
    ELSE ReadCsv(files[name], restored_data)

RECURSIVE ReadDailyFiles(_, _, _, _)
\* restore.py:170-186
ReadDailyFiles(names, restored_data, bad, k) ==
    IF names = <<>> THEN restored_data
    ELSE ReadDailyFiles(Tail(names), ReadFile(Head(names), restored_data, bad, k),
                        bad, k)

RECURSIVE ReplayReadings(_, _, _)
\* restore.py:196-199: the readings of one meter from the log
ReplayReadings(m, readings, restored_data) ==
    IF readings = <<>> THEN restored_data
    ELSE ReplayReadings(m, Tail(readings),
            IF validate_reading(m, Head(readings).key, Head(readings).value,
                                restored_data)
            THEN SetReading(restored_data, m, Head(readings).key, Head(readings).value)
            ELSE restored_data)

RECURSIVE ReplayToday(_, _)
\* restore.py:193-199
ReplayToday(today_readings, restored_data) ==
    IF today_readings = <<>> THEN restored_data
    ELSE LET m == Head(today_readings).key
             entered == IF DictHas(restored_data, m) THEN restored_data
                        ELSE DictSet(restored_data, m, <<>>)
         IN  ReplayToday(Tail(today_readings),
                         ReplayReadings(m, Head(today_readings).value, entered))

\* restore.py:43: os.listdir raises when the directory does not exist
RestoreRaises == ~archive_dir_exists

\* restore.py:157-203  DataRestorer.restore_data, when it returns
RestoredDataWhen(bad, k) ==
    ReplayToday(get_today_readings_from_logs,
                ReadDailyFiles(get_daily_files_for_current_month, <<>>, bad, k))

\* the same when every file is read to its end
RestoredData == RestoredDataWhen(NoFile, 0)

\* a load that makes a ledger entry for whatever meter the restored data names
LoadMeter_Any(m, restored_readings, readings) ==
    [x \in DOMAIN readings \cup {m} |->
        IF x = m
        THEN DictUpdate(IF m \in DOMAIN readings THEN readings[m] ELSE <<>>,
                        restored_readings)
        ELSE readings[x]]

\* app.py:428-429: the readings restored for one meter are loaded when the
\* meter is registered
LoadMeter(m, restored_readings, readings) ==
    IF m \in Range(accounts)
    THEN [readings EXCEPT ![m] = DictUpdate(@, restored_readings)]
    ELSE readings

RECURSIVE LoadRestored(_, _)
\* app.py:427-430: the loop over the restored meters
LoadRestored(restored_data, readings) ==
    IF restored_data = <<>> THEN readings
    ELSE LoadRestored(Tail(restored_data),
                      LoadMeter(Head(restored_data).key, Head(restored_data).value,
                                readings))

RECURSIVE TotalReadings(_)
\* app.py:426-430  total_readings
TotalReadings(restored_data) ==
    IF restored_data = <<>> THEN 0
    ELSE (IF Head(restored_data).key \in Range(accounts)
          THEN Len(Head(restored_data).value) ELSE 0)
         + TotalReadings(Tail(restored_data))

\* app.py:403-445  restore_data
restore_data(bad, k) ==
    LET fault == IF bad = NoFile THEN "" ELSE "read"
        again == /\ last.op = "restore" /\ last.fault = fault
                 /\ last.key = bad.key /\ last.read = k
    IN  /\ IF RestoreRaises
           THEN /\ meter_readings' = meter_readings
                /\ last' = [NoRequest EXCEPT !.op = "restore", !.result = "Failed",
                                             !.again = again]
           ELSE /\ meter_readings' = LoadRestored(RestoredDataWhen(bad, k),
                                                  meter_readings)
                /\ last' = [NoRequest EXCEPT
                              !.op = "restore", !.result = "Restored",
                              !.fault = fault, !.key = bad.key, !.read = k,
                              !.again = again,
                              !.total = TotalReadings(RestoredDataWhen(bad, k)),
                              !.out = RestoredDataWhen(bad, k)]
        /\ UNCHANGED <<accounts, is_receiving_data, system_state,
                       archive_dir_exists, files, meter_files, log, clock>>

\* a recovery run in which every file is read to its end
RestoreData == restore_data(NoFile, 0)

\* a recovery run in which reading one of the daily files raises
RestoreWithReadError ==
    \E bad \in Range(get_daily_files_for_current_month) :
        \E k \in 0..(Len(files[bad]) - 1) : restore_data(bad, k)

(***************************************************************************)
(* The operational record written in the form recovery replays             *)
(***************************************************************************)
\* the entry of restore.py:67-68:
\* "INFO - <asctime> - Meter reading recorded successfully: <meter>, <timestamp>, <reading>"
ReplayEntry(m, t, r) ==
    LogLine("INFO", RecordedSuccessfully, m, StrOfDatetime(t), r)

\* an entry for a meter of M with a timestamp of T
AppendEntry(M, T) ==
    \E m \in M, t \in T, r \in Readings :
        /\ Len(log) < MaxEntries
        /\ log' = Append(log, ReplayEntry(m, t, r))
        /\ last' = [NoRequest EXCEPT !.op = "entry"]
        /\ UNCHANGED <<accounts, meter_readings, is_receiving_data, system_state,
                       archive_dir_exists, files, meter_files, clock>>

AppendReplayEntry == AppendEntry(MeterIds, {T_Today0, T_Today30})

\* the number of digits after the point when reading r (units of 0.005 kWh)
\* is printed: 1.0, 1.02, 1.005
FractionDigits(r) ==
    IF (r * 5) % 10 # 0 THEN 3 ELSE IF (r * 5) % 100 # 0 THEN 2 ELSE 1

\* restore.py:73-81: `[\d.]+` and float() on what is left of the text of
\* reading r when the line ends after k digits of the fraction
CutReading(r, k) ==
    LET unit == CASE k = 0 -> 1000 [] k = 1 -> 100 [] k = 2 -> 10 [] OTHER -> 1
    IN  ((((r * 5) \div unit) * unit) \div 5)

\* the record ends with a line that is not whole
TrailingPartialLine ==
    log # <<>> /\ log[Len(log)].damage \in {"cut", "partial"}

\* an entry of M1 with a timestamp of T after whole lines
AppendRecordEntry(T) ==
    ~TrailingPartialLine /\ AppendEntry({"M1"}, T)

\* a line that ends before its reading, or holds bytes that cannot be decoded
AppendDamagedEntry ==
    \E r \in Readings, damage \in {"cut", "undecodable"} :
        /\ ~TrailingPartialLine
        /\ Len(log) < MaxEntries
        /\ log' = Append(log, [ReplayEntry("M1", T_Today30, r) EXCEPT
                                   !.damage = damage])
        /\ last' = [NoRequest EXCEPT !.op = "entry", !.fault = damage]
        /\ UNCHANGED <<accounts, meter_readings, is_receiving_data, system_state,
                       archive_dir_exists, files, meter_files, clock>>

\* a line that ends inside the digits of its reading r
AppendPartialEntry ==
    \E r \in Readings : \E k \in 0..(FractionDigits(r) - 1) :
        /\ ~TrailingPartialLine
        /\ Len(log) < MaxEntries
        /\ log' = Append(log, [ReplayEntry("M1", T_Today30, CutReading(r, k)) EXCEPT
                                   !.damage = "partial"])
        /\ last' = [NoRequest EXCEPT !.op = "entry", !.fault = "partial",
                                     !.reading = r]
        /\ UNCHANGED <<accounts, meter_readings, is_receiving_data, system_state,
                       archive_dir_exists, files, meter_files, clock>>

(***************************************************************************)
(* Consumption of a range: ElectricityAccount.calculate_consumption        *)
(***************************************************************************)
InRange_OpenEnd(start_time, end_time, ts) ==
    TsLeq(start_time, ts) /\ TsLess(ts, end_time)

\* APIs.py:84  start_time <= ts <= end_time
InRange(start_time, end_time, ts) ==
    TsLeq(start_time, ts) /\ TsLeq(ts, end_time)

\* APIs.py:84: the comprehension keeps the insertion order of meter_readings
RelevantReadings(d, start_time, end_time) ==
    SelectSeq(d, LAMBDA e : InRange(start_time, end_time, e.key))

\* the outcomes of a consumption query: the two ValueError messages of
\* APIs.py:87 and APIs.py:93, and a returned number
NoReadingsFound == "No readings found"

InsufficientReadings == "Insufficient readings"

Consumption == "Consumption"

calculate_consumption_NoMinimum(d, start_time, end_time) ==
    LET relevant_readings == RelevantReadings(d, start_time, end_time)
        timestamps == SortTs(DictKeys(relevant_readings))
    IN  IF relevant_readings = <<>>
        THEN [result |-> NoReadingsFound, value |-> <<>>, timestamps |-> <<>>]
        ELSE [result |-> Consumption,
              value |-> <<DictGet(relevant_readings, timestamps[Len(timestamps)])
                            - DictGet(relevant_readings, timestamps[1])>>,
              timestamps |-> timestamps]

\* APIs.py:84-100: what the method raises or returns (value: the float of
\* APIs.py:100, which carries no start or end reading), and the sorted
\* timestamps it has computed by then
calculate_consumption(d, start_time, end_time) ==
    LET relevant_readings == RelevantReadings(d, start_time, end_time)
        timestamps == SortTs(DictKeys(relevant_readings))
    IN  IF relevant_readings = <<>>
        THEN [result |-> NoReadingsFound, value |-> <<>>, timestamps |-> <<>>]
        ELSE IF Len(timestamps) < 2
        THEN [result |-> InsufficientReadings, value |-> <<>>,
              timestamps |-> timestamps]
        ELSE [result |-> Consumption,
              value |-> <<DictGet(relevant_readings, timestamps[Len(timestamps)])
                            - DictGet(relevant_readings, timestamps[1])>>,
              timestamps |-> timestamps]

\* the readings of d at the timestamps ts, as records of meter m
ConsideredReadings(m, d, ts) ==
    [i \in 1..Len(ts) |->
        [meter_id |-> m, timestamp |-> ts[i], reading |-> DictGet(d, ts[i])]]

\* the ends of the ranges asked for
RangeEnds == QueryTimestamps

\* account.calculate_consumption(start_time, end_time) on the account of m
CalculateConsumption ==
    \E m \in Range(accounts), start_time \in RangeEnds, end_time \in RangeEnds :
        LET c == calculate_consumption(meter_readings[m], start_time, end_time)
        IN  /\ last' = [NoRequest EXCEPT
                          !.op = "calculate_consumption", !.meter = m,
                          !.start_time = start_time, !.end_time = end_time,
                          !.result = c.result, !.value = c.value,
                          !.rows = ConsideredReadings(m, meter_readings[m],
                                                      c.timestamps)]
            /\ UNCHANGED <<accounts, meter_readings, is_receiving_data,
                           system_state, archive_dir_exists, files, log,
                           meter_files, clock>>

(***************************************************************************)
(* Consumption of a period: ElectricityManagementSystem.get_consumption    *)
(***************************************************************************)
\* APIs.py:239-244: now adjusted to a half hour
NormalizedNow ==
    IF Now.minute > 30
    THEN Stamp(Now.year, Now.month, Now.day, Now.hour, 30, 0, 0)
    ELSE IF Now.minute > 0
    THEN Stamp(Now.year, Now.month, Now.day, Now.hour, 0, 0, 0)
    ELSE Stamp(Now.year, Now.month, Now.day, Now.hour, Now.minute, 0, 0)

\* datetime - timedelta(minutes=30)
Minus30Min(t) ==
    IF t.minute >= 30 THEN [t EXCEPT !.minute = @ - 30]
    ELSE IF t.hour > 0 THEN [t EXCEPT !.hour = @ - 1, !.minute = @ + 30]
    ELSE [MinusOneDay(t) EXCEPT !.hour = 23, !.minute = @ + 30]

RECURSIVE DaysBeforeMonth(_, _)
\* the days of year y before its month mo
DaysBeforeMonth(y, mo) ==
    IF mo = 1 THEN 0 ELSE DaysBeforeMonth(y, mo - 1) + DaysInMonth(y, mo - 1)

\* date.toordinal(): 0001-01-01 is day 1
ToOrdinal(d) ==
    365 * (d.year - 1) + ((d.year - 1) \div 4) - ((d.year - 1) \div 100)
      + ((d.year - 1) \div 400) + DaysBeforeMonth(d.year, d.month) + d.day

\* datetime.weekday(): Monday is 0
Weekday(t) == (ToOrdinal(DateOf(t)) + 6) % 7

RECURSIVE MinusDays(_, _)
\* datetime - timedelta(days=n)
MinusDays(t, n) == IF n = 0 THEN t ELSE MinusDays(MinusOneDay(t), n - 1)

\* the periods of APIs.py:281-293 whose consumption is read from the ledger
LedgerPeriods == {"last_30min", "today", "this_week", "this_month"}

\* APIs.py:281-293: start_time of a ledger period; end_time is now
StartTime(period, now) ==
    IF period = "last_30min" THEN Minus30Min(now)
    ELSE IF period = "today" THEN Midnight(DateOf(now))
    ELSE IF period = "this_week"
    THEN Midnight(DateOf(MinusDays(now, Weekday(now))))
    ELSE Stamp(now.year, now.month, 1, 0, 0, 0, 0)

\* APIs.py:248-249 on the adjusted now
QueryLastMonth ==
    MinusOneDay(Stamp(NormalizedNow.year, NormalizedNow.month, 1, 0, 0, 0, 0))

\* APIs.py:250-251: Archive/monthly_<YYYY-MM>.csv
MonthlyFile ==
    [period |-> "monthly", key |-> MkDate(QueryLastMonth.year, QueryLastMonth.month, 0)]

\* APIs.py:260  df[df['meter_id'] == meter_id]
MeterData(rows, m) == SelectSeq(rows, LAMBDA r : r.meter_id = m)

\* APIs.py:268  meter_data['reading'].max() - meter_data['reading'].min()
MaxMinusMin(rows) ==
    LET readings == {rows[i].reading : i \in 1..Len(rows)}
        max == CHOOSE r \in readings : \A s \in readings : s <= r
        min == CHOOSE r \in readings : \A s \in readings : r <= s
    IN  max - min

\* the outcomes of the last_month branch: FileNotFoundError (APIs.py:256) and
\* ValueError (APIs.py:263)
ArchiveFileNotFound == "Archive file not found"

NoDataFound == "No data found"

\* APIs.py:246-269
LastMonthConsumption(m) ==
    IF ~archive_dir_exists \/ MonthlyFile \notin DOMAIN files
    THEN [result |-> ArchiveFileNotFound, value |-> <<>>]
    ELSE IF MeterData(files[MonthlyFile], m) = <<>>
    THEN [result |-> NoDataFound, value |-> <<>>]
    ELSE [result |-> Consumption,
          value |-> <<MaxMinusMin(MeterData(files[MonthlyFile], m))>>]

\* APIs.py:233 and APIs.py:295: return None
None == "None"

\* a query that answers only while the ingestion gate is open
ConsumptionOutcome_Gated(m, period) ==
    LET none == [result |-> None, value |-> <<>>, key |-> MkDate(0, 0, 0),
                 start_time |-> NoStamp, end_time |-> NoStamp, rows |-> <<>>]
    IN  IF ~is_receiving_data \/ m \notin Range(accounts) THEN none
        ELSE IF period = "last_month"
        THEN [none EXCEPT !.key = MonthlyFile.key,
                          !.result = LastMonthConsumption(m).result,
                          !.value = LastMonthConsumption(m).value]
        ELSE IF period \in LedgerPeriods
        THEN LET start_time == StartTime(period, NormalizedNow)
                 end_time == NormalizedNow
                 c == calculate_consumption(meter_readings[m], start_time, end_time)
             IN  [none EXCEPT !.start_time = start_time, !.end_time = end_time,
                              !.result = c.result, !.value = c.value,
                              !.rows = ConsideredReadings(m, meter_readings[m],
                                                          c.timestamps)]
        ELSE none

\* APIs.py:221-297: what get_consumption returns or raises for a meter and a
\* period in the current state
ConsumptionOutcome(m, period) ==
    LET none == [result |-> None, value |-> <<>>, key |-> MkDate(0, 0, 0),
                 start_time |-> NoStamp, end_time |-> NoStamp, rows |-> <<>>]
    IN  IF m \notin Range(accounts) THEN none
        ELSE IF period = "last_month"
        THEN [none EXCEPT !.key = MonthlyFile.key,
                          !.result = LastMonthConsumption(m).result,
                          !.value = LastMonthConsumption(m).value]
        ELSE IF period \in LedgerPeriods
        THEN LET start_time == StartTime(period, NormalizedNow)
                 end_time == NormalizedNow
                 c == calculate_consumption(meter_readings[m], start_time, end_time)
             IN  [none EXCEPT !.start_time = start_time, !.end_time = end_time,
                              !.result = c.result, !.value = c.value,
                              !.rows = ConsideredReadings(m, meter_readings[m],
                                                          c.timestamps)]
        ELSE none

\* APIs.py:221-297
get_consumption(m, period) ==
    LET c == ConsumptionOutcome(m, period)
    IN  /\ last' = [NoRequest EXCEPT
                      !.op = "get_consumption", !.meter = m, !.period = period,
                      !.key = c.key, !.start_time = c.start_time,
                      !.end_time = c.end_time, !.result = c.result,
                      !.value = c.value, !.rows = c.rows]
        /\ UNCHANGED <<accounts, meter_readings, is_receiving_data, system_state,
                       archive_dir_exists, files, log, meter_files, clock>>

\* the period names of the requests: the five of APIs.py:227 and one other
PeriodNames ==
    {"last_30min", "today", "this_week", "this_month", "last_month", "yesterday"}

GetConsumption ==
    \E m \in MeterIds, period \in PeriodNames : get_consumption(m, period)


(***************************************************************************)
(* Last month's bill: ElectricityManagementSystem.get_last_month_bill      *)
(***************************************************************************)
\* APIs.py:317-321: Archive/monthly_<YYYY-MM>.csv of the month before now's
BillFile ==
    [period |-> "monthly", key |-> MkDate(LastMonth.year, LastMonth.month, 0)]

\* APIs.py:337-341: the row with the earliest timestamp after
\* sort_values('timestamp') (rows of one meter; equal timestamps do not occur
\* in the partitions of SpecBill)
FirstRow(rows) ==
    CHOOSE r \in Range(rows) :
        \A q \in Range(rows) :
            TsLeq(FromIsoFormat(r.timestamp), FromIsoFormat(q.timestamp))

\* APIs.py:337-342: the row with the latest timestamp
LastRow(rows) ==
    CHOOSE r \in Range(rows) :
        \A q \in Range(rows) :
            TsLeq(FromIsoFormat(q.timestamp), FromIsoFormat(r.timestamp))

\* APIs.py:299-361: what get_last_month_bill returns or raises for a meter
LastMonthBill(m) ==
    LET none == [result |-> ArchiveFileNotFound, value |-> <<>>,
                 start_reading |-> <<>>, end_reading |-> <<>>,
                 start_time |-> NoStamp, end_time |-> NoStamp]
    IN  IF ~archive_dir_exists \/ BillFile \notin DOMAIN files THEN none
        ELSE LET meter_data == MeterData(files[BillFile], m)
             IN  IF meter_data = <<>> THEN [none EXCEPT !.result = NoDataFound]
                 ELSE [result |-> "Bill",
                       value |-> <<LastRow(meter_data).reading
                                     - FirstRow(meter_data).reading>>,
                       start_reading |-> <<FirstRow(meter_data).reading>>,
                       end_reading |-> <<LastRow(meter_data).reading>>,
                       start_time |-> FromIsoFormat(FirstRow(meter_data).timestamp),
                       end_time |-> FromIsoFormat(LastRow(meter_data).timestamp)]

\* app.py:356-400  get_last_month_bill
get_last_month_bill(m) ==
    LET b == LastMonthBill(m)
    IN  /\ last' = [NoRequest EXCEPT
                      !.op = "bill", !.meter = m, !.key = BillFile.key,
                      !.result = b.result, !.value = b.value,
                      !.start_reading = b.start_reading,
                      !.end_reading = b.end_reading,
                      !.start_time = b.start_time, !.end_time = b.end_time]
        /\ UNCHANGED <<accounts, meter_readings, is_receiving_data, system_state,
                       archive_dir_exists, files, log, meter_files, clock>>

GetLastMonthBill == \E m \in MeterIds : get_last_month_bill(m)

\* APIs.py:363-432 with period monthly
ArchiveMonthly ==
    \E clear_memory \in BOOLEAN : archive_readings("monthly", clear_memory, "none")


(***************************************************************************)
(* Maintenance: app.py start_maintenance.  The endpoints are coroutines on *)
(* the one event loop of uvicorn.run (app.py:448) and the coroutines       *)
(* start_maintenance awaits never suspend, so a run is one step            *)
(***************************************************************************)
\* APIs.py:376-432: the run returns False
ArchiveFailed(period, fault) ==
    fault = "makedirs" \/ (fault = "to_csv" /\ AllReadings(period, accounts) # <<>>)

\* APIs.py:422-426: the partitions after a run over partitions f
FilesAfter(f, period, fault) ==
    IF ~ArchiveFailed(period, fault) /\ AllReadings(period, accounts) # <<>>
    THEN WriteFile(f, ArchiveFileName(period), CsvRows(AllReadings(period, accounts)))
    ELSE f

\* a handler that leaves the flag set when the run fails
MaintenanceModeAfter_KeptOnFailure(outcome) == outcome = "Failed"

\* app.py:283-288: the except clause and the finally clause reset the flag
MaintenanceModeAfter(outcome) ==
    IF outcome = "Failed" THEN FALSE ELSE FALSE

\* app.py:244-288  start_maintenance; daily_fault and monthly_fault are the
\* faults of the two archive runs.  perform_monthly_maintenance (app.py:230-242)
\* raises for every meter: get_consumption or get_last_month_bill raises, or
\* get_last_month_bill returns a dict, which BillingResponse (app.py:68-73)
\* refuses as last_month_consumption: Optional[float]; so a run that reaches
\* the monthly part fails after the archive run of the first meter
start_maintenance(type, daily_fault, monthly_fault) ==
    IF system_state.is_maintenance_mode
    THEN /\ last' = [NoRequest EXCEPT !.op = "maintenance", !.period = type,
                                      !.result = "Rejected"]
         /\ UNCHANGED <<accounts, meter_readings, is_receiving_data, system_state,
                        archive_dir_exists, files, log, meter_files, clock>>
    ELSE LET daily == type \in {"daily", "both"}
             daily_failed == daily /\ ArchiveFailed("daily", daily_fault)
             monthly == /\ type \in {"monthly", "both"} /\ ~daily_failed
                        /\ accounts # <<>>
             after_daily == IF daily THEN FilesAfter(files, "daily", daily_fault)
                            ELSE files
             outcome == IF daily_failed \/ monthly
                        THEN "Failed" ELSE "Completed"
         IN  /\ files' = IF monthly
                         THEN FilesAfter(after_daily, "monthly", monthly_fault)
                         ELSE after_daily
             /\ meter_readings' = IF monthly /\ monthly_fault # "makedirs"
                                  THEN ClearedReadings("monthly")
                                  ELSE meter_readings
             /\ archive_dir_exists' = ( \/ archive_dir_exists
                                        \/ (daily /\ daily_fault # "makedirs")
                                        \/ (monthly /\ monthly_fault # "makedirs") )
             /\ system_state' = [system_state EXCEPT
                                  !.is_maintenance_mode = MaintenanceModeAfter(outcome)]
             /\ last' = [NoRequest EXCEPT
                           !.op = "maintenance", !.period = type,
                           !.fault = IF daily THEN daily_fault ELSE monthly_fault,
                           !.clear_memory = monthly,
                           !.result = outcome]
             /\ UNCHANGED <<accounts, is_receiving_data, log, meter_files, clock>>

StartMaintenance ==
    \E type \in {"daily", "monthly", "both"},
       daily_fault \in {"none", "makedirs", "to_csv"},
       monthly_fault \in {"none", "makedirs", "to_csv"} :
        start_maintenance(type, daily_fault, monthly_fault)


(***************************************************************************)
(* The ingestion gate: app.py shutdown / resume                            *)
(***************************************************************************)
\* APIs.py:213-219
shutdown_system_Noop == is_receiving_data' = is_receiving_data

shutdown_system == is_receiving_data' = FALSE

resume_system == is_receiving_data' = TRUE

\* the answers of every consumption query in the current state
Answers ==
    [m \in MeterIds |-> [period \in PeriodNames |-> ConsumptionOutcome(m, period)]]

\* app.py:311-332; answers records what the queries answered before the request
Shutdown ==
    /\ IF ~system_state.is_receiving_data
       THEN /\ UNCHANGED <<system_state, is_receiving_data>>
            /\ last' = [NoRequest EXCEPT !.op = "shutdown", !.answers = Answers,
                                        !.result = "AlreadyShutDown"]
       ELSE /\ system_state' = [system_state EXCEPT !.is_receiving_data = FALSE]
            /\ shutdown_system
            /\ last' = [NoRequest EXCEPT !.op = "shutdown", !.answers = Answers,
                                        !.result = "Stopped"]
    /\ UNCHANGED <<accounts, meter_readings, archive_dir_exists, files, log,
                   meter_files, clock>>

\* app.py:334-354
Resume ==
    /\ IF system_state.is_receiving_data
       THEN /\ UNCHANGED <<system_state, is_receiving_data>>
            /\ last' = [NoRequest EXCEPT !.op = "resume", !.answers = Answers,
                                        !.result = "AlreadyReceiving"]
       ELSE /\ system_state' = [system_state EXCEPT !.is_receiving_data = TRUE]
            /\ resume_system
            /\ last' = [NoRequest EXCEPT !.op = "resume", !.answers = Answers,
                                        !.result = "Resumed"]
    /\ UNCHANGED <<accounts, meter_readings, archive_dir_exists, files, log,
                   meter_files, clock>>


(***************************************************************************)
(* Specifications                                                          *)
(***************************************************************************)
\* the ledger with archival and recovery
Next ==
    \/ ReceiveMeterReading(LedgerTimestamps)
    \/ RegisterAccount
    \/ ArchiveReadings
    \/ PerformMaintenance
    \/ RestoreData

Spec == Init /\ [][Next]_vars

\* ingestion and its gate, over every kind of timestamp
NextIngest ==
    \/ ReceiveMeterReading(Timestamps)
    \/ RegisterAccount
    \/ Shutdown
    \/ Resume

SpecIngest == Init /\ [][NextIngest]_vars

\* recovery from an operational record that holds replayable entries
InitReplay ==
    /\ accounts = <<"M1">>
    /\ meter_readings = [m \in {"M1"} |-> <<>>]
    /\ is_receiving_data = TRUE
    /\ system_state = [is_maintenance_mode |-> FALSE, is_receiving_data |-> TRUE]
    /\ archive_dir_exists \in BOOLEAN
    /\ files = <<>>
    /\ meter_files = <<>>
    /\ log = <<>>
    /\ clock = WallClock
    /\ last = NoRequest

NextReplay ==
    \/ AppendReplayEntry
    \/ RestoreData

SpecReplay == InitReplay /\ [][NextReplay]_vars

\* ingestion and consumption queries
NextQuery ==
    \/ ReceiveMeterReading(QueryTimestamps)
    \/ RegisterAccount
    \/ CalculateConsumption
    \/ GetConsumption

SpecQuery == Init /\ [][NextQuery]_vars

\* the service started at any of the instants Clocks
InitClock ==
    /\ accounts = <<"M1">>
    /\ meter_readings = [m \in {"M1"} |-> <<>>]
    /\ is_receiving_data = TRUE
    /\ system_state = [is_maintenance_mode |-> FALSE, is_receiving_data |-> TRUE]
    /\ archive_dir_exists = FALSE
    /\ files = <<>>
    /\ meter_files = <<>>
    /\ log = <<>>
    /\ clock \in Clocks
    /\ last = NoRequest

\* ingestion, archival and period queries at any wall clock
NextClock ==
    \/ ReceiveMeterReading(ClockTimestamps)
    \/ ArchiveReadings
    \/ GetConsumption

SpecClock == InitClock /\ [][NextClock]_vars

\* loggers.py:13-15, APIs.py:105-109, app.py:17, 26-31: the process is stopped
\* and started again on the next day.  The new process opens the log file of
\* the new date, loads the accounts, and starts with no readings and with the
\* gate open; the archive is on disk
RestartNextDay ==
    /\ clock = WallClock
    /\ clock' = [clock EXCEPT !.year = NextDate(DateOf(clock)).year,
                              !.month = NextDate(DateOf(clock)).month,
                              !.day = NextDate(DateOf(clock)).day]
    /\ meter_readings' = [m \in DOMAIN meter_readings |-> <<>>]
    /\ is_receiving_data' = TRUE
    /\ system_state' = [is_maintenance_mode |-> FALSE, is_receiving_data |-> TRUE]
    /\ log' = <<>>
    /\ last' = [NoRequest EXCEPT !.op = "restart"]
    /\ UNCHANGED <<accounts, archive_dir_exists, files, meter_files>>

\* APIs.py:363-432  archive_readings("daily", clear_memory), without a fault
ArchiveDaily ==
    \E clear_memory \in BOOLEAN : archive_readings("daily", clear_memory, "none")

\* ingestion and daily archival on two days, and recovery from the partitions
\* and the operational record
NextRecover ==
    \/ ReceiveMeterReadingOf({"M1"}, RecoverTimestamps)
    \/ ArchiveDaily
    \/ RestartNextDay
    \/ AppendEntry({"M1"}, RecoverTimestamps)
    \/ RestoreData
    \/ RestoreWithReadError

SpecRecover == Init /\ [][NextRecover]_vars

\* ingestion, daily archival and recovery within one day
NextArchive ==
    \/ ReceiveMeterReading(ArchiveTimestamps)
    \/ ArchiveDaily
    \/ RestoreData

SpecArchive == Init /\ [][NextArchive]_vars

\* recovery from an operational record with damaged and misaligned entries
NextRecord ==
    \/ AppendRecordEntry({T_Today0, T_Today30, T_Quarter, T_Second})
    \/ AppendDamagedEntry
    \/ AppendPartialEntry
    \/ RestoreData

SpecRecord == InitReplay /\ [][NextRecord]_vars

\* ingestion and maintenance runs
NextMaintain ==
    \/ ReceiveMeterReadingOf({"M1"}, LedgerTimestamps)
    \/ StartMaintenance

SpecMaintain == Init /\ [][NextMaintain]_vars

\* last month's partition, its bill and its consumption
NextBill ==
    \/ ReceiveMeterReadingOf({"M1"}, {T_FirstFeb, T_LastMonth})
    \/ ArchiveMonthly
    \/ GetLastMonthBill
    \/ \E m \in MeterIds : get_consumption(m, "last_month")

SpecBill == Init /\ [][NextBill]_vars

\* a daily partition of several rows, written and read back
NextPartition ==
    \/ ReceiveMeterReadingOf({"M1"}, {T_Yesterday, T_YesterdayHour})
    \/ ArchiveDaily
    \/ RestoreData
    \/ RestoreWithReadError

SpecPartition == Init /\ [][NextPartition]_vars

\* ingestion, its gate and period queries
NextGate ==
    \/ ReceiveMeterReading(QueryTimestamps)
    \/ Shutdown
    \/ Resume
    \/ GetConsumption

SpecGate == Init /\ [][NextGate]_vars

(***************************************************************************)
(* Properties                                                              *)
(***************************************************************************)
\* the step is an ingestion request (every request writes to the log)
IngestStep == last'.op = "ingest" /\ log' # log

\* the value restored for meter m at timestamp t, <<>> when there is none
RestoredValue(out, m, t) ==
    IF DictHas(out, m) /\ DictHas(DictGet(out, m), t)
    THEN <<DictGet(DictGet(out, m), t)>> ELSE <<>>

\* C1: in every ledger entry a reading with an earlier timestamp never has a
\* greater value than a reading with a later timestamp
LedgerMonotonic ==
    \A m \in DOMAIN meter_readings :
        \A i, j \in 1..Len(meter_readings[m]) :
            TsLess(meter_readings[m][i].key, meter_readings[m][j].key)
                => meter_readings[m][i].value <= meter_readings[m][j].value

\* C2: an ingest for a registered meter with the gate open and an aligned
\* timestamp is rejected as NonMonotonicReading when a stored reading with an
\* earlier timestamp has a greater value
NonMonotonicRejected ==
    ( /\ last.op = "ingest"
      /\ last.meter \in Range(accounts)
      /\ is_receiving_data
      /\ last.ts.minute \in {0, 30} /\ last.ts.second = 0 /\ last.ts.microsecond = 0
      /\ \E i \in 1..Len(meter_readings[last.meter]) :
            /\ TsLess(meter_readings[last.meter][i].key, last.ts)
            /\ meter_readings[last.meter][i].value > last.reading )
    => last.result = "NonMonotonicReading"

\* whether the entry of meter m in the ledger `readings` holds r at timestamp t
Holds(readings, m, t, r) ==
    /\ m \in DOMAIN readings
    /\ DictHas(readings[m], t)
    /\ DictGet(readings[m], t) = r

InLedger(m, t, r) == Holds(meter_readings, m, t, r)

\* C3: when an archive run that evicts returns failure because the write
\* failed, every reading it selected (for daily maintenance: every selected
\* reading of the meter whose write failed) is still in the ledger
WriteThenEvict ==
    /\ ( last.op = "archive" /\ last.clear_memory /\ last.result = "False" )
         => \A i \in 1..Len(last.rows) :
               InLedger(last.rows[i].meter_id, last.rows[i].timestamp,
                        last.rows[i].reading)
    /\ ( last.op = "maintenance" /\ last.result = "False" )
         => \A i \in 1..Len(last.rows) :
               last.rows[i].meter_id = last.fault
                  => InLedger(last.rows[i].meter_id, last.rows[i].timestamp,
                              last.rows[i].reading)

\* C4: after a successful ingest the log holds a line that recovery parses to
\* the meter, timestamp and value of the request, and (when recovery does not
\* fail) the recovered data holds that value for that meter and timestamp
IngestRestoreRoundTrip ==
    ( last.op = "ingest" /\ last.result = "Recorded" )
    => /\ \E i \in 1..Len(log) :
             parse_log_line(log[i]) =
                <<[meter_id |-> last.meter, timestamp |-> last.ts,
                   reading |-> last.reading]>>
       /\ ~RestoreRaises
             => RestoredValue(RestoredData, last.meter, last.ts) = <<last.reading>>

\* C5: when the log holds two parsable entries for the same meter and timestamp
\* whose values differ by more than the tolerance, recovery returns the value
\* of the first entry for that meter and timestamp
FirstEntryKept ==
    ( last.op = "restore" /\ last.result = "Restored" )
    => \A i, j \in 1..Len(log) :
          ( /\ i < j
            /\ parse_log_line(log[i]) # <<>> /\ parse_log_line(log[j]) # <<>>
            /\ parse_log_line(log[i])[1].meter_id = parse_log_line(log[j])[1].meter_id
            /\ parse_log_line(log[i])[1].timestamp = parse_log_line(log[j])[1].timestamp
            /\ Abs(parse_log_line(log[i])[1].reading
                     - parse_log_line(log[j])[1].reading) > Tolerance
            /\ \A k \in 1..(i - 1) :
                  \/ parse_log_line(log[k]) = <<>>
                  \/ parse_log_line(log[k])[1].meter_id # parse_log_line(log[i])[1].meter_id
                  \/ parse_log_line(log[k])[1].timestamp # parse_log_line(log[i])[1].timestamp )
          => RestoredValue(last.out, parse_log_line(log[i])[1].meter_id,
                           parse_log_line(log[i])[1].timestamp)
                = <<parse_log_line(log[i])[1].reading>>

\* C6: a recovery run while the archive directory does not exist succeeds and
\* returns exactly the readings replayed from today's log
MissingArchiveIsEmpty ==
    ( last.op = "restore" /\ ~archive_dir_exists )
    => /\ last.result = "Restored"
       /\ last.out = ReplayToday(get_today_readings_from_logs, <<>>)

\* C7 (as claimed): an ingest for an unregistered meter is rejected as
\* UnknownDevice whatever the state of the gate
UnknownDeviceFirst ==
    ( last.op = "ingest" /\ last.meter \notin Range(accounts) )
    => last.result = "UnknownDevice"

\* C7 (amended): ingest reports the first failing check in the order
\* IngestionSuspended, UnknownDevice, InvalidTimestamp
CheckOrder ==
    last.op = "ingest"
    => /\ ~is_receiving_data => last.result = "IngestionSuspended"
       /\ ( is_receiving_data /\ last.meter \notin Range(accounts) )
             => last.result = "UnknownDevice"
       /\ ( /\ is_receiving_data /\ last.meter \in Range(accounts)
            /\ (last.ts.minute \notin {0, 30} \/ last.ts.second # 0) )
             => last.result = "InvalidTimestamp"
       /\ last.result = "Recorded"
             => /\ is_receiving_data /\ last.meter \in Range(accounts)
                /\ last.ts.minute \in {0, 30} /\ last.ts.second = 0

SuspendedBeforeUnknown ==
    /\ last.op = "ingest"
    /\ last.meter \notin Range(accounts)
    /\ ~is_receiving_data
    /\ last.result = "IngestionSuspended"

\* C8: a successful shutdown closes the gate and only a resume opens it again;
\* while it is closed every ingest for a registered meter is rejected as
\* IngestionSuspended and changes no ledger entry; while it is open an ingest
\* for a registered meter with an aligned timestamp is recorded
GateSuspendsIngestion ==
    /\ []( last.op = "shutdown" => ~is_receiving_data )
    /\ []( last.op = "resume" => is_receiving_data )
    /\ [][ (~is_receiving_data /\ is_receiving_data') => last'.op = "resume" ]_vars
    /\ [][ ( IngestStep /\ ~is_receiving_data /\ last'.meter \in Range(accounts) )
             => /\ last'.result = "IngestionSuspended"
                /\ meter_readings' = meter_readings ]_vars
    /\ [][ ( /\ IngestStep /\ is_receiving_data /\ last'.meter \in Range(accounts)
             /\ last'.ts.minute \in {0, 30} /\ last'.ts.second = 0 )
             => /\ last'.result = "Recorded"
                /\ Holds(meter_readings', last'.meter, last'.ts, last'.reading) ]_vars

\* an ingest for a registered meter was rejected while the gate was closed and
\* a later one was recorded
RejectedThenRecorded ==
    \E i, j \in 1..Len(log) :
        /\ i < j
        /\ log[i] = ShutdownLine
        /\ log[i - 1].meter_id \in Range(accounts)
        /\ log[j] = RecordedLine(log[i - 1].meter_id)

NoSubSecondStored ==
    \A m \in DOMAIN meter_readings :
        \A i \in 1..Len(meter_readings[m]) :
            meter_readings[m][i].key.microsecond = 0

\* the last request was a consumption query that read the ledger over the
\* range [last.start_time, last.end_time]
RangeQueried ==
    \/ last.op = "calculate_consumption"
    \/ /\ last.op = "get_consumption"
       /\ last.meter \in Range(accounts)
       /\ last.period \in LedgerPeriods

\* the positions in the ledger entry of meter m of the readings whose
\* timestamp lies in the closed range [a, b]
InClosedRange(m, a, b) ==
    {i \in 1..Len(meter_readings[m]) :
        /\ TsLeq(a, meter_readings[m][i].key)
        /\ TsLeq(meter_readings[m][i].key, b)}

\* the position, among the positions S of the entry of meter m, of the reading
\* with the smallest timestamp
FirstOf(m, S) ==
    CHOOSE i \in S : \A j \in S :
        TsLeq(meter_readings[m][i].key, meter_readings[m][j].key)

\* ... and with the largest timestamp
LastOf(m, S) ==
    CHOOSE i \in S : \A j \in S :
        TsLeq(meter_readings[m][j].key, meter_readings[m][i].key)

\* C11: a range query over at least two readings returns the value of the
\* reading with the largest timestamp in range minus the value of the one with
\* the smallest timestamp in range, and its result carries those two readings
\* as end reading and start reading
ConsumptionFirstLast ==
    ( RangeQueried
      /\ Cardinality(InClosedRange(last.meter, last.start_time, last.end_time)) >= 2 )
    => LET S == InClosedRange(last.meter, last.start_time, last.end_time)
           first == meter_readings[last.meter][FirstOf(last.meter, S)].value
           final == meter_readings[last.meter][LastOf(last.meter, S)].value
       IN  /\ last.result = Consumption
           /\ last.value = <<final - first>>
           /\ last.start_reading = <<first>>
           /\ last.end_reading = <<final>>

\* C12: a range query returns "No readings found" when no reading of the meter
\* lies in the range and "Insufficient readings" when exactly one does; the two
\* outcomes differ and neither carries a consumption value
NoneOrOneReading ==
    /\ NoReadingsFound # InsufficientReadings
    /\ RangeQueried
         => LET n == Cardinality(InClosedRange(last.meter, last.start_time,
                                               last.end_time))
            IN  /\ n = 0 => last.result = NoReadingsFound /\ last.value = <<>>
                /\ n = 1 => last.result = InsufficientReadings /\ last.value = <<>>
                /\ last.result = NoReadingsFound => n = 0
                /\ last.result = InsufficientReadings => n = 1

\* the ledger entry holds two readings, the range holds one of them, and the
\* query reported insufficient readings
OneOfTwoInRange ==
    /\ last.op = "calculate_consumption"
    /\ Len(meter_readings[last.meter]) = 2
    /\ Cardinality(InClosedRange(last.meter, last.start_time, last.end_time)) = 1
    /\ last.result = InsufficientReadings
    /\ last.value = <<>>

\* C13: a consumption query never returns a negative consumption
NoNegativeConsumption ==
    ( last.op \in {"calculate_consumption", "get_consumption"}
      /\ last.value # <<>> )
    => last.value[1] >= 0

\* C14: a range query considers exactly the readings of the meter whose
\* timestamp t satisfies start <= t <= end, in ascending order of timestamp,
\* whatever the order of their ingestion, and considers none (reporting "No
\* readings found") exactly when none lies in the range
RangeClosedAscending ==
    RangeQueried
    => /\ {last.rows[i].timestamp : i \in 1..Len(last.rows)}
            = {meter_readings[last.meter][i].key :
                 i \in InClosedRange(last.meter, last.start_time, last.end_time)}
       /\ \A i \in 1..Len(last.rows) :
             /\ last.rows[i].meter_id = last.meter
             /\ InLedger(last.meter, last.rows[i].timestamp, last.rows[i].reading)
       /\ \A i, j \in 1..Len(last.rows) :
             i < j => TsLess(last.rows[i].timestamp, last.rows[j].timestamp)
       /\ (last.rows = <<>>) <=> (last.result = NoReadingsFound)

\* two readings were ingested later timestamp first, the range starts at one
\* and ends at the other, and the query considered both
BothEndsConsidered ==
    /\ last.op = "calculate_consumption"
    /\ Len(meter_readings[last.meter]) = 2
    /\ meter_readings[last.meter][1].key = last.end_time
    /\ meter_readings[last.meter][2].key = last.start_time
    /\ TsLess(last.start_time, last.end_time)
    /\ Len(last.rows) = 2

\* the last request was a query of a registered meter over one of the periods
\* last_30min, today, this_week, this_month
LedgerPeriodQueried ==
    /\ last.op = "get_consumption"
    /\ last.meter \in Range(accounts)
    /\ last.period \in LedgerPeriods

\* C15: the instant a period query uses as now is the latest instant not after
\* the wall clock whose minute is 0 or 30 and whose second and microsecond are
\* 0: minutes 0..29 give :00, minutes 30..59 give :30
NormalizedDown ==
    LedgerPeriodQueried
    => last.end_time =
          Stamp(clock.year, clock.month, clock.day, clock.hour,
                IF clock.minute < 30 THEN 0 ELSE 30, 0, 0)

\* C16: the period of a last_30min, today, this_week or this_month query ends
\* at the adjusted now and excludes it, a last_30min period starts 30 minutes
\* before it, and the query considers no reading stamped outside
\* [start, adjusted now)
PeriodHalfOpen ==
    LedgerPeriodQueried
    => /\ last.end_time = NormalizedNow
       /\ last.period = "last_30min" => last.start_time = Minus30Min(NormalizedNow)
       /\ \A i \in 1..Len(last.rows) :
             /\ TsLeq(last.start_time, last.rows[i].timestamp)
             /\ TsLess(last.rows[i].timestamp, NormalizedNow)

\* C17: whatever the wall clock shows, last month is the calendar month before
\* the clock's month (December of the year before when the clock shows
\* January): a last_month query reads the archive file of that month, and a
\* monthly archive run selects exactly the ledger readings from midnight of
\* its day 1 up to, and excluding, midnight of day 1 of the clock's month
LastMonthWindow ==
    LET py == IF clock.month = 1 THEN clock.year - 1 ELSE clock.year
        pm == IF clock.month = 1 THEN 12 ELSE clock.month - 1
        from == Stamp(py, pm, 1, 0, 0, 0, 0)
        to == Stamp(clock.year, clock.month, 1, 0, 0, 0, 0)
    IN  /\ MonthStart = from
        /\ ( last.op = "get_consumption" /\ last.period = "last_month"
             /\ last.meter \in Range(accounts) )
              => last.key = MkDate(py, pm, 0)
        /\ ( last.op = "archive" /\ last.period = "monthly"
             /\ last.fault # "makedirs" )
              => /\ \A i \in 1..Len(last.rows) :
                       /\ TsLeq(from, last.rows[i].timestamp)
                       /\ TsLess(last.rows[i].timestamp, to)
                 /\ ~last.clear_memory =>
                       \A m \in DOMAIN meter_readings :
                          \A i \in 1..Len(meter_readings[m]) :
                             ( /\ TsLeq(from, meter_readings[m][i].key)
                               /\ TsLess(meter_readings[m][i].key, to) )
                             => \E j \in 1..Len(last.rows) :
                                   /\ last.rows[j].meter_id = m
                                   /\ last.rows[j].timestamp = meter_readings[m][i].key
                 /\ last.clear_memory =>
                       \A m \in DOMAIN meter_readings :
                          \A i \in 1..Len(meter_readings[m]) :
                             ~ ( /\ TsLeq(from, meter_readings[m][i].key)
                                 /\ TsLess(meter_readings[m][i].key, to) )

\* in January a last_month query returned a consumption read from the archive
\* file of December of the year before
DecemberQueriedInJanuary ==
    /\ clock.month = 1
    /\ last.op = "get_consumption"
    /\ last.period = "last_month"
    /\ last.key = MkDate(clock.year - 1, 12, 0)
    /\ last.result = Consumption

\* C18: a consumption query of a registered meter with a period name other
\* than last_30min, today, this_week, this_month and last_month has an outcome
\* that differs from the outcome of a query of an unregistered meter
InvalidPeriodSignalled ==
    ( /\ last.op = "get_consumption"
      /\ last.meter \in Range(accounts)
      /\ last.period \notin LedgerPeriods \cup {"last_month"} )
    => last.result # None

\* C19: an archive run leaves in every partition each row stored before the
\* run whose meter and timestamp are not those of a reading the run writes
ArchiveAdditive ==
    [][ /\ ( last'.op = "archive" /\ last'.result = "True" )
             => \A n \in DOMAIN files :
                   \A i \in 1..Len(files[n]) :
                      ( \A j \in 1..Len(last'.rows) :
                           \/ last'.rows[j].meter_id # files[n][i].meter_id
                           \/ StrfSeconds(last'.rows[j].timestamp)
                                 # files[n][i].timestamp )
                      => /\ n \in DOMAIN files'
                         /\ files[n][i] \in Range(files'[n])
        /\ ( last'.op = "maintenance" /\ last'.result = "True" )
             => \A n \in DOMAIN meter_files :
                   \A i \in 1..Len(meter_files[n]) :
                      ( \A j \in 1..Len(last'.rows) :
                           \/ last'.rows[j].meter_id # n.meter_id
                           \/ IsoFormat(last'.rows[j].timestamp)
                                 # meter_files[n][i].timestamp )
                      => /\ n \in DOMAIN meter_files'
                         /\ meter_files[n][i] \in Range(meter_files'[n]) ]_vars

\* C20: a successful archive run for yesterday that directly follows a
\* successful archive run for yesterday, each with or without eviction, leaves
\* every partition as the first run left it; so does a daily maintenance run
\* that directly follows a successful one
ArchiveIdempotent ==
    [][ /\ ( /\ last.op = "archive" /\ last.period = "daily"
             /\ last.result = "True"
             /\ last'.op = "archive" /\ last'.period = "daily"
             /\ last'.result = "True" )
             => files' = files
        /\ ( /\ last.op = "maintenance" /\ last.result = "True"
             /\ last'.op = "maintenance" /\ last'.result = "True" )
             => meter_files' = meter_files ]_vars

\* a run without eviction directly followed a successful run for yesterday, and
\* the partition of yesterday holds the readings the second run selected
ArchivedTwice ==
    /\ last.op = "archive"
    /\ last.period = "daily"
    /\ ~last.clear_memory
    /\ last.again
    /\ last.result = "True"
    /\ last.rows # <<>>
    /\ ArchiveFileName("daily") \in DOMAIN files
    /\ files[ArchiveFileName("daily")] = CsvRows(last.rows)

\* the reading r of meter m at timestamp t is in a file daily maintenance wrote
InMeterFiles(m, t, r) ==
    \E n \in DOMAIN meter_files :
        /\ n.meter_id = m
        /\ \E i \in 1..Len(meter_files[n]) :
              /\ meter_files[n][i].timestamp = IsoFormat(t)
              /\ meter_files[n][i].reading = r

\* C21: after a daily maintenance run in which the write for one meter with
\* readings of yesterday failed, the outcome is failure and every reading of
\* yesterday of every other meter is in that meter's file and no longer in the
\* ledger
FailureIsolated ==
    ( /\ last.op = "maintenance"
      /\ \E i \in 1..Len(last.rows) : last.rows[i].meter_id = last.fault )
    => /\ last.result = "False"
       /\ \A i \in 1..Len(last.rows) :
             last.rows[i].meter_id # last.fault
             => /\ InMeterFiles(last.rows[i].meter_id, last.rows[i].timestamp,
                                last.rows[i].reading)
                /\ ~DictHas(meter_readings[last.rows[i].meter_id],
                            last.rows[i].timestamp)

\* C27: the first request after the start is not an ingest that is recorded,
\* and a recovery run only happens while the ingestion gate is closed
RecoveryPrecedesIngestion ==
    /\ [][ ( IngestStep /\ last.op = "none" ) => last'.result # "Recorded" ]_vars
    /\ [][ ( last'.op = "restore" /\ last' # last ) => ~is_receiving_data ]_vars

\* C29: a shutdown request succeeds and leaves the gate closed, also when the
\* gate was closed already; a resume request succeeds and leaves the gate
\* open, also when it was open already; neither changes a ledger entry
GateIdempotent ==
    /\ []( last.op = "shutdown" => ( last.result = "Stopped" /\ ~is_receiving_data ) )
    /\ []( last.op = "resume" => ( last.result = "Resumed" /\ is_receiving_data ) )
    /\ [][ last'.op \in {"shutdown", "resume"}
             => meter_readings' = meter_readings ]_vars

\* C30: a shutdown or resume request changes the answer of no consumption
\* query, for every meter and every period name; and a query answers what the
\* ledger and the archive give for it, whether the gate is open or closed
GateLeavesQueries ==
    /\ last.op \in {"shutdown", "resume"} => Answers = last.answers
    /\ last.op = "get_consumption"
         => LET c == Answers[last.meter][last.period]
            IN  last.result = c.result /\ last.value = c.value

\* a query for a registered meter returned a consumption while the gate was
\* closed
QueriedWhileSuspended ==
    /\ last.op = "get_consumption"
    /\ ~is_receiving_data
    /\ last.result = Consumption
    /\ last.value # <<>>

\* the closed period of an archive run at the wall clock: yesterday for a
\* daily run, the calendar month before the clock's month for a monthly run
ClosedPeriodStart(period) ==
    IF period = "daily" THEN Midnight(PrevDate(DateOf(clock)))
    ELSE Stamp(IF clock.month = 1 THEN clock.year - 1 ELSE clock.year,
               IF clock.month = 1 THEN 12 ELSE clock.month - 1, 1, 0, 0, 0, 0)

ClosedPeriodEnd(period) ==
    IF period = "daily" THEN Midnight(DateOf(clock))
    ELSE Stamp(clock.year, clock.month, 1, 0, 0, 0, 0)

\* the key of the partition of the closed period
ClosedPeriodKey(period) ==
    IF period = "daily" THEN PrevDate(DateOf(clock))
    ELSE MkDate(ClosedPeriodStart(period).year, ClosedPeriodStart(period).month, 0)

EntriesOf(m) ==
    {i \in 1..Len(log) : parse_log_line(log[i]) # <<>> /\ log[i].meter_id = m}

\* the number of readings of meter m in the data a recovery run returned
RestoredCount(out, m) == IF DictHas(out, m) THEN Len(DictGet(out, m)) ELSE 0

\* C25: a recovery run over an archive without partitions succeeds and, for
\* every meter whose replayable entries have distinct timestamps, returns as
\* many readings as the meter has entries: none for a meter without entries
ReplayYieldsEntries ==
    ( last.op = "restore" /\ files = <<>> )
    => /\ last.result = "Restored"
       /\ \A m \in MeterIds :
             ( \A i, j \in EntriesOf(m) :
                  i # j => log[i].timestamp # log[j].timestamp )
             => RestoredCount(last.out, m) = Cardinality(EntriesOf(m))

\* C23: a recovery run that directly follows a successful daily archive run,
\* yesterday being a day of the clock's month, succeeds and returns every
\* reading the archive run selected, under the same meter with the same
\* timestamp and value, whether or not the archive run evicted it
ArchiveRestoreRoundTrip ==
    [][ ( /\ last.op = "archive" /\ last.period = "daily" /\ last.result = "True"
          /\ PrevDate(DateOf(clock)).month = clock.month
          /\ last'.op = "restore" )
        => /\ last'.result = "Restored"
           /\ \A i \in 1..Len(last.rows) :
                 RestoredValue(last'.out, last.rows[i].meter_id,
                               last.rows[i].timestamp)
                    = <<last.rows[i].reading>> ]_vars

\* the daily partitions of the clock's month
DailyPartitions ==
    {n \in DOMAIN files :
        n.period = "daily" /\ n.key.year = clock.year /\ n.key.month = clock.month}

\* a row of a daily partition of the clock's month holds meter m at timestamp t
InPartition(m, t) ==
    \E n \in DailyPartitions : \E i \in 1..Len(files[n]) :
        files[n][i].meter_id = m /\ FromIsoFormat(files[n][i].timestamp) = t

\* C24: after a recovery run that read every partition, a (meter, timestamp)
\* that a partition holds has the value of the partition, whatever the
\* entries of the operational record for it say: a differing entry is
\* discarded and an equal one changes nothing; a (meter, timestamp) that no
\* partition holds and an entry gives has the value of an entry for it
ReplayKeepsExisting ==
    ( last.op = "restore" /\ last.result = "Restored" /\ last.fault = "" )
    => /\ \A n \in DailyPartitions : \A i \in 1..Len(files[n]) :
             RestoredValue(last.out, files[n][i].meter_id,
                           FromIsoFormat(files[n][i].timestamp))
                = <<files[n][i].reading>>
       /\ \A m \in MeterIds : \A i \in EntriesOf(m) :
             ~InPartition(m, FromIsoFormat(log[i].timestamp))
             => \E j \in EntriesOf(m) :
                   /\ log[j].timestamp = log[i].timestamp
                   /\ RestoredValue(last.out, m, FromIsoFormat(log[i].timestamp))
                         = <<log[j].reading>>

\* a recovery run found an entry that differs by more than the tolerance from
\* the reading a partition holds for the same meter and timestamp, and an
\* entry for a timestamp no partition holds; it returned the partition's
\* reading for the first and the entry's for the second
ConflictingEntryDiscarded ==
    /\ last.op = "restore" /\ last.result = "Restored" /\ last.fault = ""
    /\ \E n \in DailyPartitions : \E i \in 1..Len(files[n]) :
          \E j \in EntriesOf(files[n][i].meter_id) :
             /\ FromIsoFormat(log[j].timestamp) = FromIsoFormat(files[n][i].timestamp)
             /\ Abs(log[j].reading - files[n][i].reading) > Tolerance
             /\ RestoredValue(last.out, files[n][i].meter_id,
                              FromIsoFormat(files[n][i].timestamp))
                   = <<files[n][i].reading>>
    /\ \E m \in MeterIds : \E j \in EntriesOf(m) :
          /\ ~InPartition(m, FromIsoFormat(log[j].timestamp))
          /\ RestoredValue(last.out, m, FromIsoFormat(log[j].timestamp))
                = <<log[j].reading>>

\* C26: a recovery run in which reading one daily partition raises still
\* succeeds, and what it returns holds every reading of every other daily
\* partition of the clock's month and a reading for every entry of today's
\* operational record
RestoreSurvivesBadFile ==
    ( last.op = "restore" /\ last.fault = "read" )
    => /\ last.result = "Restored"
       /\ \A n \in DailyPartitions :
             n.key # last.key
             => \A i \in 1..Len(files[n]) :
                   RestoredValue(last.out, files[n][i].meter_id,
                                 FromIsoFormat(files[n][i].timestamp))
                      = <<files[n][i].reading>>
       /\ \A m \in MeterIds : \A i \in EntriesOf(m) :
             RestoredValue(last.out, m, FromIsoFormat(log[i].timestamp)) # <<>>

\* reading the later of two daily partitions raised at its first row; the run
\* returned the reading of the earlier partition and the reading of an entry
OtherPartitionRestored ==
    /\ last.op = "restore" /\ last.fault = "read" /\ last.result = "Restored"
    /\ last.read = 0
    /\ \E n \in DailyPartitions :
          /\ TsLess(Midnight(n.key), Midnight(last.key))
          /\ files[n] # <<>>
          /\ RestoredValue(last.out, files[n][1].meter_id,
                           FromIsoFormat(files[n][1].timestamp))
                = <<files[n][1].reading>>
    /\ \E m \in MeterIds : \E i \in EntriesOf(m) :
          RestoredValue(last.out, m, FromIsoFormat(log[i].timestamp))
             = <<log[i].reading>>

\* C28: a recovery run that directly follows a recovery run, with the same
\* file unreadable at the same row in both or none in both, returns the same
\* data and leaves every ledger entry as the first run left it
RecoveryIdempotent ==
    [][ ( last.op = "restore" /\ last'.op = "restore" /\ last'.again )
        => /\ last'.result = last.result
           /\ last'.out = last.out
           /\ meter_readings' = meter_readings ]_vars

\* a second recovery run in a row returned readings of a registered meter
\* from a partition and from the operational record, and the ledger holds them
RestoredTwice ==
    /\ last.op = "restore" /\ last.again /\ last.result = "Restored"
    /\ \E m \in DOMAIN meter_readings :
          /\ RestoredCount(last.out, m) > 1
          /\ \A i \in 1..Len(DictGet(last.out, m)) :
                Holds(meter_readings, m, DictGet(last.out, m)[i].key,
                      DictGet(last.out, m)[i].value)

(***************************************************************************)
(* C38: after any sequence of shutdown and resume requests, rejected ones  *)
(* included, the flag of the boundary (system_state.is_receiving_data)     *)
(* equals the flag of the ledger that ingestion consults                   *)
(* (is_receiving_data).                                                    *)
(***************************************************************************)
GateFlagsAgree ==
    system_state.is_receiving_data = is_receiving_data

\* a shutdown was refused because the gate was already closed
ShutdownRefusedWhileClosed ==
    /\ last.op = "shutdown"
    /\ last.result = "AlreadyShutDown"
    /\ ~is_receiving_data
    /\ ~system_state.is_receiving_data

\* the number of readings a recovery run returned for the meters of S
RECURSIVE CountFor(_, _)
CountFor(out, S) ==
    IF S = {} THEN 0
    ELSE LET m == CHOOSE x \in S : TRUE
         IN  RestoredCount(out, m) + CountFor(out, S \ {m})

(***************************************************************************)
(* C39: loading the output of a recovery run adds readings only to         *)
(* registered devices: the ledger has an entry for exactly the registered  *)
(* devices before and after, every reading held before is still held,      *)
(* every reading held after was held before or is a restored reading of    *)
(* that device, every restored reading of a registered device is held      *)
(* with the restored value, and the reported count is the number of        *)
(* readings restored for registered devices.                               *)
(***************************************************************************)
LoadOnlyRegistered ==
    [][ ( last'.op = "restore" /\ last'.result = "Restored" )
        => /\ DOMAIN meter_readings' = DOMAIN meter_readings
           /\ DOMAIN meter_readings' = Range(accounts)
           /\ \A m \in DOMAIN meter_readings :
                 /\ \A t \in DictKeys(meter_readings[m]) :
                        DictHas(meter_readings'[m], t)
                 /\ \A t \in DictKeys(meter_readings'[m]) :
                        \/ /\ DictHas(meter_readings[m], t)
                           /\ RestoredValue(last'.out, m, t) = <<>>
                           /\ DictGet(meter_readings'[m], t) = DictGet(meter_readings[m], t)
                        \/ RestoredValue(last'.out, m, t)
                              = <<DictGet(meter_readings'[m], t)>>
                 /\ \A t \in DictKeys(IF DictHas(last'.out, m)
                                      THEN DictGet(last'.out, m) ELSE <<>>) :
                        DictHas(meter_readings'[m], t)
           /\ last'.total = CountFor(last'.out, Range(accounts)) ]_vars

\* a second recovery run in a row returned readings of the unregistered M2
\* and of the registered M1, whose ledger entry already held a reading
UnregisteredRestoredNotLoaded ==
    /\ last.op = "restore" /\ last.result = "Restored" /\ last.again
    /\ RestoredCount(last.out, "M2") >= 1
    /\ "M2" \notin DOMAIN meter_readings
    /\ last.total >= 1
    /\ last.total < RestoredCount(last.out, "M1") + RestoredCount(last.out, "M2")

\* timestamp t lies in the closed period of an archive run at the wall clock
InClosedPeriod(period, t) ==
    TsLeq(ClosedPeriodStart(period), t) /\ TsLess(t, ClosedPeriodEnd(period))

(***************************************************************************)
(* C34: an archive run changes the ledger only by eviction.  The devices   *)
(* of the ledger stay the same; without clear_memory the ledger is         *)
(* unchanged; with clear_memory every reading outside the closed period,   *)
(* and so every device without a reading in it, is left as it was and      *)
(* nothing is added, and a successful run leaves exactly the readings      *)
(* outside the closed period.                                              *)
(***************************************************************************)
ArchiveOnlyEvicts ==
    [][ last'.op = "archive"
        => LET p == last'.period
               Outside(d) == SelectSeq(d, LAMBDA e : ~InClosedPeriod(p, e.key))
           IN  /\ DOMAIN meter_readings' = DOMAIN meter_readings
               /\ ~last'.clear_memory => meter_readings' = meter_readings
               /\ \A m \in DOMAIN meter_readings :
                     /\ Outside(meter_readings'[m]) = Outside(meter_readings[m])
                     /\ \A e \in Range(meter_readings'[m]) :
                           e \in Range(meter_readings[m])
                     /\ Outside(meter_readings[m]) = meter_readings[m]
                           => meter_readings'[m] = meter_readings[m]
               /\ ( last'.clear_memory /\ last'.result = "True" )
                     => \A m \in DOMAIN meter_readings :
                           meter_readings'[m] = Outside(meter_readings[m]) ]_vars

\* a successful evicting run archived readings of one device only, that
\* device still holds a reading, and another device holds its readings
EvictedPeriodOnly ==
    /\ last.op = "archive" /\ last.clear_memory /\ last.result = "True"
    /\ Len(last.rows) >= 1
    /\ \E m \in DOMAIN meter_readings :
          /\ \A i \in 1..Len(last.rows) : last.rows[i].meter_id = m
          /\ \E n \in DOMAIN meter_readings \ {m} : Len(meter_readings[n]) >= 1

\* the rows of a partition are in ascending order of their timestamps
Ascending(rows) ==
    \A i, j \in 1..Len(rows) :
        i < j => TsLeq(FromIsoFormat(rows[i].timestamp),
                       FromIsoFormat(rows[j].timestamp))

(***************************************************************************)
(* C31: after every archive run that writes a partition, the rows of the   *)
(* partition of the run's closed period are in ascending order of their    *)
(* timestamps.                                                             *)
(***************************************************************************)
PartitionAscending ==
    ( last.op = "archive" /\ last.result = "True" /\ last.rows # <<>> )
    => Ascending(files[[period |-> last.period, key |-> ClosedPeriodKey(last.period)]])

(***************************************************************************)
(* C32: when reading a daily partition fails partway through a recovery    *)
(* run, nothing of that partition is in the run's result: a row of the     *)
(* partition is in the result only if another partition of the month or a  *)
(* replayable entry of the operational record holds the same meter and     *)
(* timestamp.                                                              *)
(***************************************************************************)
FailedPartitionOmitted ==
    ( last.op = "restore" /\ last.result = "Restored" /\ last.fault = "read" )
    => LET bad == [period |-> "daily", key |-> last.key]
       IN  \A i \in 1..Len(files[bad]) :
              LET m == files[bad][i].meter_id
                  t == FromIsoFormat(files[bad][i].timestamp)
              IN  \/ RestoredValue(last.out, m, t) = <<>>
                  \/ \E n \in DailyPartitions \ {bad} : \E j \in 1..Len(files[n]) :
                        /\ files[n][j].meter_id = m
                        /\ FromIsoFormat(files[n][j].timestamp) = t
                  \/ \E e \in EntriesOf(m) : FromIsoFormat(log[e].timestamp) = t

\* entry i of the operational record is a whole, replayable entry whose
\* timestamp is on minute 0 or 30 with seconds 0
WellFormed(i) ==
    /\ log[i].level = "INFO" /\ log[i].template = RecordedSuccessfully
    /\ log[i].damage = "none"
    /\ log[i].timestamp.frac = NoFrac
    /\ log[i].timestamp.minute \in {0, 30} /\ log[i].timestamp.second = 0

\* the well-formed entries of meter m at the timestamp of entry i
WellFormedAt(m, i) ==
    {j \in 1..Len(log) : /\ WellFormed(j) /\ log[j].meter_id = m
                         /\ log[j].timestamp = log[i].timestamp}

(***************************************************************************)
(* C33: in a recovery run over an archive without partitions, entries of   *)
(* the operational record that are unparsable (a trailing partial line     *)
(* among them) or misaligned are skipped: for every entry's meter and      *)
(* timestamp the result holds the value of the last well-formed entry for  *)
(* them, and nothing when no well-formed entry names them.                 *)
(***************************************************************************)
BadEntriesSkipped ==
    ( last.op = "restore" /\ last.result = "Restored" /\ files = <<>> )
    => \A i \in 1..Len(log) :
          LET m == log[i].meter_id
              t == FromIsoFormat(log[i].timestamp)
              good == WellFormedAt(m, i)
          IN  RestoredValue(last.out, m, t)
                 = IF good = {} THEN <<>>
                   ELSE <<log[CHOOSE j \in good : \A h \in good : h <= j].reading>>

(***************************************************************************)
(* C36: whatever last month's partition holds, the bill of a registered    *)
(* device reports as consumption what the last_month consumption query     *)
(* answers for the device in the same state.                               *)
(***************************************************************************)
BillEqualsLastMonthConsumption ==
    ( last.op = "bill" /\ last.result = "Bill" /\ last.meter \in Range(accounts) )
    => /\ ConsumptionOutcome(last.meter, "last_month").result = Consumption
       /\ ConsumptionOutcome(last.meter, "last_month").value = last.value

(***************************************************************************)
(* C37: the maintenance-mode flag is set only while a start_maintenance    *)
(* request runs: no step leaves it set, every start_maintenance request    *)
(* ends with the flag false whether the run completed or failed, and a     *)
(* request that finds the flag set is rejected and archives nothing.       *)
(***************************************************************************)
MaintenanceFlagScoped ==
    [][ /\ ~system_state'.is_maintenance_mode
        /\ ( last'.op = "maintenance" /\ system_state.is_maintenance_mode )
              => /\ last'.result = "Rejected"
                 /\ files' = files /\ meter_readings' = meter_readings
        /\ ( last'.op = "maintenance" /\ ~system_state.is_maintenance_mode )
              => last'.result \in {"Completed", "Failed"} ]_vars

\* a run that failed after it had written a partition, the flag being false
FailedRunLeftFlagFalse ==
    /\ last.op = "maintenance" /\ last.result = "Failed"
    /\ last.period = "both" /\ last.fault = "none"
    /\ [period |-> "daily", key |-> ClosedPeriodKey("daily")] \in DOMAIN files
    /\ ~system_state.is_maintenance_mode

\* the readings of the ledger in the closed period of an archive run
SelectedFromLedger(period) ==
    UNION { { [meter_id |-> m, timestamp |-> e.key, reading |-> e.value] :
                e \in {x \in Range(meter_readings[m]) : InClosedPeriod(period, x.key)} } :
            m \in DOMAIN meter_readings }

\* the readings that the rows of a partition hold
RowSet(rows) ==
    { [meter_id |-> rows[i].meter_id,
       timestamp |-> FromIsoFormat(rows[i].timestamp),
       reading |-> rows[i].reading] : i \in 1..Len(rows) }

====
